---- MODULE Spec2Model ----
(***************************************************************************)
(* Barcode/QR Code Generator API (src/api_generator.py).                   *)
(*                                                                         *)
(* Three routes: POST /generate-qr, POST /generate-barcode, GET /.         *)
(* A request body is validated against its pydantic model, the handler     *)
(* calls the image helper and wraps the buffer in a StreamingResponse, and *)
(* the response is then sent to the client.                                *)
(*                                                                         *)
(* Text that the program inspects character by character (file names,      *)
(* barcode data) is a sequence of Unicode code points.  QR data is only    *)
(* measured by the encoder, so it is kept as one run [c, n]: the character *)
(* c repeated n times.  An optional JSON field is <<>> when the client     *)
(* omitted it and <<v>> when the client sent v.                            *)
(***************************************************************************)
EXTENDS Integers, Sequences, FiniteSets, TLC

\* Number of request slots (requests that can be in flight together).
NumReq == 2
\* Longest client-submitted file name, in characters.
MaxFilenameLen == 2

\* Completed requests counted (the count stops there).
MaxServed == 1

Slots == 1..NumReq

(***************************************************************************)
(* State.                                                                  *)
(***************************************************************************)
VARIABLES
  pc,        \* pc[i]: where request i is: idle, received, validated,
             \*        responding, done
  req,       \* req[i]: the request as the client sent it
  resp,      \* resp[i]: the response object the application built
  client,    \* client[i]: the response as the client received it
  calls,     \* calls[i]: how many times the encoder library was entered
  lib,       \* lib[i]: the exception the encoder library raised, if any
  produced,  \* produced[i]: the bytes the encoder wrote into its buffer
  served     \* the number of requests completed so far

vars == <<pc, req, resp, client, calls, lib, produced, served>>


Has(o) == o # <<>>
Val(o) == o[1]

(***************************************************************************)
(* Strings of the program, as code points.                                 *)
(***************************************************************************)
DQUOTE == 34

\* "qrcode.png"
QRDefaultFilename == <<113, 114, 99, 111, 100, 101, 46, 112, 110, 103>>
\* "barcode.png"
BarcodeDefaultFilename == <<98, 97, 114, 99, 111, 100, 101, 46, 112, 110, 103>>
\* 'inline; filename="'
DispositionPrefix ==
  <<105, 110, 108, 105, 110, 101, 59, 32,
    102, 105, 108, 101, 110, 97, 109, 101, 61, DQUOTE>>

(***************************************************************************)
(* Exceptions.  str(e) of an HTTPException is "<status_code>: <detail>";   *)
(* str(e) of a library exception is its message.                           *)
(***************************************************************************)
HTTPException(status_code, detail) ==
  [class |-> "HTTPException", status_code |-> status_code, detail |-> detail]

LibraryError(class, message) ==
  [class |-> class, status_code |-> 0, detail |-> <<message>>]

StrOfException(e) ==
  IF e.class = "HTTPException"
  THEN <<ToString(e.status_code), ": ">> \o e.detail
  ELSE e.detail

\* barcode.errors: BarcodeError and its subclasses.
BarcodeErrorClasses ==
  {"BarcodeError", "IllegalCharacterError", "NumberOfDigitsError",
   "WrongCountryCodeError", "BarcodeNotFoundError"}

IsBarcodeError(e) == e.class \in BarcodeErrorClasses

\* The result of a call: an exception raised or a value returned.
Raise(e) == [exc |-> <<e>>, value |-> <<>>]
Return(v) == [exc |-> <<>>, value |-> <<v>>]
Raised(r) == r.exc # <<>>

\* io.BytesIO: the chunks written so far and the stream position (the number
\* of chunks before it).  A PNG is written as one chunk.
\* One module-level buffer that keeps what earlier requests wrote.
BytesIO_shared == [chunks |-> produced[1], pos |-> Len(produced[1])]

\* io.BytesIO(): a new, empty buffer.
BytesIO == [chunks |-> <<>>, pos |-> 0]
save(buf, png) ==
  [chunks |-> SubSeq(buf.chunks, 1, buf.pos) \o <<png>>, pos |-> buf.pos + 1]
seek(buf, pos) == [buf EXCEPT !.pos = pos]
\* What a reader gets from the stream position to the end.
read(buf) == SubSeq(buf.chunks, buf.pos + 1, Len(buf.chunks))

(***************************************************************************)
(* The qrcode library as the helper uses it: error correction H, byte      *)
(* mode.  QRCapacityH[v] is the number of data bytes a version-v symbol    *)
(* holds.                                                                  *)
(***************************************************************************)
QRMinVersion == 1
QRMaxVersion == 40

QRCapacityH ==
  <<7, 14, 24, 34, 44, 58, 64, 84, 98, 119,
    137, 155, 177, 194, 220, 250, 280, 310, 338, 382,
    403, 439, 461, 511, 535, 593, 625, 658, 698, 742,
    790, 842, 898, 958, 983, 1051, 1093, 1139, 1219, 1273>>

\* qr.make(fit=False): the requested version or nothing.
best_fit_exact(start, n) ==
  IF n <= QRCapacityH[start] THEN start ELSE QRMaxVersion + 1

\* qr.make(fit=True): the smallest version >= start that holds n bytes;
\* QRMaxVersion + 1 when none does.
best_fit(start, n) ==
  LET fits == {v \in start..QRMaxVersion : n <= QRCapacityH[v]}
  IN IF fits = {} THEN QRMaxVersion + 1
     ELSE CHOOSE v \in fits : \A w \in fits : v <= w

\* Colour names the imaging library resolves.
KnownColors == {"black", "white", "blue", "lightgray", "#FF0000"}

TextLen(run) == run.n

\* Lines 40-54 without the try: construct QRCode, add_data, make(fit=True),
\* make_image, save, seek(0).
qr_encode(data, fill_color, back_color, version, box_size, border) ==
  IF version < QRMinVersion \/ version > QRMaxVersion
  THEN Raise(LibraryError("ValueError", "Invalid version"))
  ELSE IF box_size <= 0
  THEN Raise(LibraryError("ValueError", "Invalid box size"))
  ELSE IF border < 0
  THEN Raise(LibraryError("ValueError", "Invalid border value"))
  ELSE IF best_fit(version, TextLen(data)) > QRMaxVersion
  THEN Raise(LibraryError("DataOverflowError", "Data too large"))
  ELSE IF fill_color \notin KnownColors \/ back_color \notin KnownColors
  THEN Raise(LibraryError("ValueError", "unknown color specifier"))
  ELSE LET img == [kind |-> "qr", payload |-> data,
                   version |-> best_fit(version, TextLen(data)),
                   box_size |-> box_size, border |-> border,
                   fill_color |-> fill_color, back_color |-> back_color]
       IN Return(seek(save(BytesIO, img), 0))

\* The helper as it would be if a capacity overflow were answered as a client
\* error.
generate_qr_code_image_bytes_overflow400(data, fill_color, back_color, version, box_size, border) ==
  LET r == qr_encode(data, fill_color, back_color, version, box_size, border)
  IN IF Raised(r)
     THEN Raise(HTTPException(
                  IF Val(r.exc).class = "DataOverflowError" THEN 400 ELSE 500,
                  <<"Failed to generate QR Code: ">> \o StrOfException(Val(r.exc))))
     ELSE r

\* _generate_qr_code_image_bytes: any exception becomes HTTP 500.
generate_qr_code_image_bytes(data, fill_color, back_color, version, box_size, border) ==
  LET r == qr_encode(data, fill_color, back_color, version, box_size, border)
  IN IF Raised(r)
     THEN Raise(HTTPException(500,
                  <<"Failed to generate QR Code: ">> \o StrOfException(Val(r.exc))))
     ELSE r

(***************************************************************************)
(* The barcode library as the helper uses it.                              *)
(***************************************************************************)
supported_barcode_types ==
  <<"ean8", "ean13", "upca", "jan", "isbn10", "isbn13", "issn",
    "code39", "code128", "pzn", "gs1">>

InList(x, list) == \E k \in DOMAIN list : list[k] = x

\* ', '.join(list)
RECURSIVE join(_)
join(list) ==
  IF Len(list) = 0 THEN <<>>
  ELSE IF Len(list) = 1 THEN list
  ELSE <<Head(list), ", ">> \o join(Tail(list))

\* s[:k]
Slice(s, k) == SubSeq(s, 1, IF k < Len(s) THEN k ELSE Len(s))

IsDigit(c) == c >= 48 /\ c <= 57
\* str.isdigit(): non-empty and all digits.
isdigit(s) == Len(s) > 0 /\ \A k \in DOMAIN s : IsDigit(s[k])

\* The number of digits the EAN-family classes take from the data.
EanDigits(barcode_type) ==
  CASE barcode_type = "ean8" -> 7
    [] barcode_type = "ean13" -> 12
    [] barcode_type = "upca" -> 11

EanFamily == {"ean8", "ean13", "upca"}

\* barcode_class(data), line 79: the exceptions construction can end in
\* (<<>> when it succeeds).  The EAN family truncates to its digit count,
\* then requires digits only and the full count.  The rules of the other
\* symbologies (check digits, country codes, character tables) are the
\* library's: construction succeeds, or fails with a BarcodeError, or with
\* another exception.
barcode_class_outcomes(barcode_type, data) ==
  IF barcode_type \in EanFamily
  THEN LET code == Slice(data, EanDigits(barcode_type))
       IN IF ~isdigit(code)
          THEN {<<LibraryError("IllegalCharacterError", "can only contain numbers")>>}
          ELSE IF Len(code) # EanDigits(barcode_type)
          THEN {<<LibraryError("NumberOfDigitsError", "wrong number of digits")>>}
          ELSE {<<>>}
  ELSE {<<>>,
        <<LibraryError("IllegalCharacterError", "illegal character")>>,
        <<LibraryError("WrongCountryCodeError", "wrong country code")>>,
        <<LibraryError("ValueError", "invalid literal for int()")>>}

\* barcode_instance.write(buf, options), line 82: a font_size that is not a
\* number makes the writer's size arithmetic raise TypeError.
write_outcome(options) ==
  IF \E o \in options : o.key = "font_size" /\ o.type = "str"
  THEN <<LibraryError("TypeError", "can't multiply sequence by non-int")>>
  ELSE <<>>

\* Lines 78-84 for one outcome `init` of the construction.
barcode_encode(barcode_type, data, options, init) ==
  IF Has(init) THEN Raise(Val(init))
  ELSE IF Has(write_outcome(options)) THEN Raise(Val(write_outcome(options)))
  ELSE LET img == [kind |-> "barcode", symbology |-> barcode_type,
                   payload |-> data, options |-> options]
       IN Return(seek(save(BytesIO, img), 0))

\* The try body, lines 66-84: the membership test raises inside the try.
barcode_try_body(barcode_type, data, options, init) ==
  IF ~InList(barcode_type, supported_barcode_types)
  THEN Raise(HTTPException(400,
               <<"Unsupported barcode type: '", barcode_type,
                 "'. Supported types: ">> \o join(supported_barcode_types)))
  ELSE barcode_encode(barcode_type, data, options, init)

\* The helper with `except Exception` alone.
generate_barcode_image_bytes_all500(barcode_type, data, options, init) ==
  LET r == barcode_try_body(barcode_type, data, options, init)
  IN IF Raised(r)
     THEN Raise(HTTPException(500,
                  <<"Failed to generate barcode: ">> \o StrOfException(Val(r.exc))))
     ELSE r

\* _generate_barcode_image_bytes: `except BarcodeError` gives 400; `except
\* Exception` gives 500 and also catches the HTTPException raised in the try.
generate_barcode_image_bytes(barcode_type, data, options, init) ==
  LET r == barcode_try_body(barcode_type, data, options, init)
  IN IF Raised(r) /\ IsBarcodeError(Val(r.exc))
     THEN Raise(HTTPException(400,
                  <<"Invalid data for barcode type '", barcode_type, "': ">>
                  \o StrOfException(Val(r.exc))
                  \o <<". Please check data format and length.">>))
     ELSE IF Raised(r)
     THEN Raise(HTTPException(500,
                  <<"Failed to generate barcode: ">> \o StrOfException(Val(r.exc))))
     ELSE r

(***************************************************************************)
(* Request validation: the pydantic models, lines 18-32.                   *)
(***************************************************************************)
Missing(field) == [loc |-> <<"body", field>>, type |-> "missing"]
TooSmall(field) == [loc |-> <<"body", field>>, type |-> "greater_than_equal"]
TooLarge(field) == [loc |-> <<"body", field>>, type |-> "less_than_equal"]

\* Field(default, ge=lo): the errors of an optional integer field.
FieldGe(body, field, lo) ==
  IF Has(body[field]) /\ Val(body[field]) < lo THEN {TooSmall(field)} ELSE {}

\* Field(default, le=hi)
FieldLe(body, field, hi) ==
  IF Has(body[field]) /\ Val(body[field]) > hi THEN {TooLarge(field)} ELSE {}

\* Field(...): a required field.
FieldRequired(body, field) ==
  IF Has(body[field]) THEN {} ELSE {Missing(field)}

Default(o, d) == IF Has(o) THEN Val(o) ELSE d

\* The model without le=40 on version.
QRCodeRequest_errors_no_le(body) ==
  FieldRequired(body, "data")
    \cup FieldGe(body, "version", QRMinVersion)
    \cup FieldGe(body, "box_size", 1)
    \cup FieldGe(body, "border", 0)

\* The model with min_length=1 on data.
QRCodeRequest_errors_min_length(body) ==
  FieldRequired(body, "data")
    \cup (IF Has(body.data) /\ Val(body.data).n < 1
          THEN {[loc |-> <<"body", "data">>, type |-> "string_too_short"]}
          ELSE {})
    \cup FieldGe(body, "version", QRMinVersion)
    \cup FieldLe(body, "version", QRMaxVersion)
    \cup FieldGe(body, "box_size", 1)
    \cup FieldGe(body, "border", 0)

QRCodeRequest_errors(body) ==
  FieldRequired(body, "data")
    \cup FieldGe(body, "version", QRMinVersion)
    \cup FieldLe(body, "version", QRMaxVersion)
    \cup FieldGe(body, "box_size", 1)
    \cup FieldGe(body, "border", 0)

QRCodeRequest(body) ==
  [data |-> Val(body.data),
   filename |-> Default(body.filename, QRDefaultFilename),
   fill_color |-> Default(body.fill_color, "black"),
   back_color |-> Default(body.back_color, "white"),
   version |-> Default(body.version, 1),
   box_size |-> Default(body.box_size, 10),
   border |-> Default(body.border, 4)]

BarcodeRequest_errors(body) ==
  FieldRequired(body, "barcode_type") \cup FieldRequired(body, "data")

BarcodeRequest(body) ==
  [barcode_type |-> Val(body.barcode_type),
   data |-> Val(body.data),
   filename |-> Default(body.filename, BarcodeDefaultFilename),
   options |-> Default(body.options, {})]

(***************************************************************************)
(* Responses.                                                              *)
(***************************************************************************)
NoResponse ==
  [status_code |-> 0, media_type |-> "", content_disposition |-> <<>>,
   body_iterator |-> <<>>, detail |-> <<>>, errors |-> {}, content |-> <<>>]

\* StreamingResponse(buf, media_type=..., headers={"Content-Disposition": h})
StreamingResponse(buf, media_type, disposition) ==
  [NoResponse EXCEPT !.status_code = 200, !.media_type = media_type,
                     !.content_disposition = disposition,
                     !.body_iterator = <<buf>>]

\* The framework's answer to a raised HTTPException: {"detail": detail}.
HTTPExceptionResponse(e) ==
  [NoResponse EXCEPT !.status_code = e.status_code,
                     !.media_type = "application/json",
                     !.detail = e.detail]

\* The framework's answer to a body that fails its model: 422 and the
\* list of errors, each with the location of the field.
ValidationErrorResponse(errors) ==
  [NoResponse EXCEPT !.status_code = 422,
                     !.media_type = "application/json",
                     !.errors = errors]

\* The framework's answer to an exception the handler does not catch.
ServerErrorResponse ==
  [NoResponse EXCEPT !.status_code = 500, !.media_type = "text/plain",
                     !.content = <<[text |-> "Internal Server Error"]>>]

\* The header with the quotes of the file name removed.
ContentDisposition_sanitized(filename) ==
  DispositionPrefix \o SelectSeq(filename, LAMBDA c : c # DQUOTE) \o <<DQUOTE>>

\* f"inline; filename=\"{filename}\""
ContentDisposition(filename) == DispositionPrefix \o filename \o <<DQUOTE>>

\* Header values are encoded as latin-1 when the response is constructed.
Latin1Encodable(s) == \A k \in DOMAIN s : s[k] <= 255

\* Line 112 / line 126: wrap the helper's buffer.
StreamImage(r, filename) ==
  IF Raised(r) THEN HTTPExceptionResponse(Val(r.exc))
  ELSE IF ~Latin1Encodable(ContentDisposition(filename)) THEN ServerErrorResponse
  ELSE StreamingResponse(Val(r.value), "image/png", ContentDisposition(filename))

\* JSONResponse(content=...)
JSONResponse(content) ==
  [NoResponse EXCEPT !.status_code = 200, !.media_type = "application/json",
                     !.content = <<content>>]

\* The content of GET /.
RootContent ==
  [message |-> "Welcome to the Barcode/QR Code Generator API!",
   docs_url |-> "/docs",
   redoc_url |-> "/redoc",
   endpoints |-> [generate_qr |-> "POST - Generate a QR Code",
                  generate_barcode |-> "POST - Generate a Barcode"]]

(***************************************************************************)
(* The requests clients send.                                              *)
(***************************************************************************)
Opt(S) == {<<>>} \cup {<<v>> : v \in S}

\* 'a', '"' and a character outside latin-1 (U+0416).
FilenameChars == {97, DQUOTE, 1046}

RECURSIVE SeqsUpTo(_, _)
SeqsUpTo(S, n) ==
  IF n = 0 THEN {<<>>}
  ELSE LET shorter == SeqsUpTo(S, n - 1)
       IN shorter \cup {Append(t, c) : t \in shorter, c \in S}

Filenames == SeqsUpTo(FilenameChars, MaxFilenameLen)

\* QR data: empty, above the capacity of version 1, the capacity of version
\* 40, and above it.
QRData == {[c |-> 120, n |-> n] : n \in {0, 8, 1273, 1274}}

QRBodies ==
  [endpoint : {"/generate-qr"},
   data : Opt(QRData),
   filename : Opt(Filenames),
   fill_color : Opt({"blue", "nocolor"}),
   back_color : Opt({"nocolor"}),
   version : Opt({0, 40, 41}),
   box_size : Opt({0}),
   border : Opt({-1, 0})]

\* "12345", "123456789012", "12A45678901234"
BarcodeData ==
  {<<49, 50, 51, 52, 53>>,
   <<49, 50, 51, 52, 53, 54, 55, 56, 57, 48, 49, 50>>,
   <<49, 50, 65, 52, 53, 54, 55, 56, 57, 48, 49, 50, 51, 52>>}

BarcodeTypes ==
  {supported_barcode_types[k] : k \in DOMAIN supported_barcode_types}
    \cup {"qrcode", "EAN13"}

BarcodeOptions ==
  {{[key |-> "font_size", value |-> "10", type |-> "int"]},
   {[key |-> "font_size", value |-> "big", type |-> "str"]}}

BarcodeBodies ==
  [endpoint : {"/generate-barcode"},
   barcode_type : Opt(BarcodeTypes),
   data : Opt(BarcodeData),
   filename : Opt(Filenames),
   options : Opt(BarcodeOptions)]

RootRequest == [endpoint |-> "/"]

Requests == QRBodies \cup BarcodeBodies \cup {RootRequest}

\* The requests of the concurrent specification: default file name and
\* rendering options.
ConcurrentRequests ==
  {r \in QRBodies :
      /\ r.filename = <<>> /\ r.fill_color = <<>> /\ r.back_color = <<>>
      /\ r.box_size = <<>> /\ r.border = <<>>
      /\ r.data \in {<<>>, <<[c |-> 120, n |-> 8]>>, <<[c |-> 120, n |-> 1274]>>}
      /\ r.version \in {<<>>, <<41>>}}
  \cup
  {r \in BarcodeBodies :
      /\ r.filename = <<>> /\ r.options = <<>>
      /\ r.data = <<<<49, 50, 51, 52, 53>>>>
      /\ r.barcode_type \in {<<>>, <<"ean13">>, <<"code128">>, <<"qrcode">>}}
  \cup {RootRequest}

NoRequest == [endpoint |-> ""]

Init ==
  /\ pc = [i \in Slots |-> "idle"]
  /\ req = [i \in Slots |-> NoRequest]
  /\ resp = [i \in Slots |-> NoResponse]
  /\ client = [i \in Slots |-> NoResponse]
  /\ calls = [i \in Slots |-> 0]
  /\ lib = [i \in Slots |-> <<>>]
  /\ produced = [i \in Slots |-> <<>>]
  /\ served = 0

\* A client sends request r.
Receive(i, r) ==
  /\ pc[i] = "idle"
  /\ pc' = [pc EXCEPT ![i] = "received"]
  /\ req' = [req EXCEPT ![i] = r]
  /\ UNCHANGED <<resp, client, calls, lib, produced, served>>

\* One request at a time.
ReceiveAlone(i) ==
  /\ \A j \in Slots : pc[j] = "idle"
  /\ \E r \in Requests : Receive(i, r)

\* Requests overlap freely.
ReceiveConcurrent(i) ==
  \E r \in ConcurrentRequests : Receive(i, r)

BodyErrors(r) ==
  IF r.endpoint = "/generate-qr" THEN QRCodeRequest_errors(r)
  ELSE BarcodeRequest_errors(r)

\* The framework parses the body into the handler's model before it calls
\* the handler; a body that fails is answered without calling it.
Validate(i) ==
  /\ pc[i] = "received"
  /\ req[i].endpoint \in {"/generate-qr", "/generate-barcode"}
  /\ IF BodyErrors(req[i]) # {}
     THEN /\ resp' = [resp EXCEPT ![i] = ValidationErrorResponse(BodyErrors(req[i]))]
          /\ pc' = [pc EXCEPT ![i] = "responding"]
     ELSE /\ pc' = [pc EXCEPT ![i] = "validated"]
          /\ UNCHANGED resp
  /\ UNCHANGED <<req, client, calls, lib, produced, served>>

Chunks(r) == IF Raised(r) THEN <<>> ELSE Val(r.value).chunks

\* POST /generate-qr, lines 98-112.
generate_qr_code_api(i) ==
  /\ pc[i] = "validated"
  /\ req[i].endpoint = "/generate-qr"
  /\ LET request == QRCodeRequest(req[i])
         img_bytes == generate_qr_code_image_bytes(
                        request.data, request.fill_color, request.back_color,
                        request.version, request.box_size, request.border)
     IN /\ resp' = [resp EXCEPT ![i] = StreamImage(img_bytes, request.filename)]
        /\ produced' = [produced EXCEPT ![i] = Chunks(img_bytes)]
        /\ lib' = [lib EXCEPT ![i] =
                    qr_encode(request.data, request.fill_color, request.back_color,
                              request.version, request.box_size, request.border).exc]
  /\ calls' = [calls EXCEPT ![i] = @ + 1]
  /\ pc' = [pc EXCEPT ![i] = "responding"]
  /\ UNCHANGED <<req, client, served>>

\* POST /generate-barcode, lines 114-126.
generate_barcode_api(i) ==
  /\ pc[i] = "validated"
  /\ req[i].endpoint = "/generate-barcode"
  /\ LET request == BarcodeRequest(req[i])
         reached == InList(request.barcode_type, supported_barcode_types)
     IN \E init \in (IF reached
                      THEN barcode_class_outcomes(request.barcode_type, request.data)
                      ELSE {<<>>}) :
          LET img_bytes == generate_barcode_image_bytes(
                             request.barcode_type, request.data,
                             request.options, init)
          IN /\ resp' = [resp EXCEPT ![i] = StreamImage(img_bytes, request.filename)]
             /\ produced' = [produced EXCEPT ![i] = Chunks(img_bytes)]
             /\ lib' = [lib EXCEPT ![i] =
                         IF reached
                         THEN barcode_encode(request.barcode_type, request.data,
                                             request.options, init).exc
                         ELSE <<>>]
             /\ calls' = [calls EXCEPT ![i] = IF reached THEN @ + 1 ELSE @]
  /\ pc' = [pc EXCEPT ![i] = "responding"]
  /\ UNCHANGED <<req, client, served>>

\* GET /, lines 129-142.
read_root(i) ==
  /\ pc[i] = "received"
  /\ req[i].endpoint = "/"
  /\ resp' = [resp EXCEPT ![i] = JSONResponse(RootContent)]
  /\ pc' = [pc EXCEPT ![i] = "responding"]
  /\ UNCHANGED <<req, client, calls, lib, produced, served>>

\* The response goes out: a streaming body is read from the buffer's
\* position to its end.
Send(i) ==
  /\ pc[i] = "responding"
  /\ client' = [client EXCEPT ![i] =
                  [resp[i] EXCEPT !.body_iterator =
                     IF Has(resp[i].body_iterator)
                     THEN read(Val(resp[i].body_iterator))
                     ELSE <<>>]]
  /\ pc' = [pc EXCEPT ![i] = "done"]
  /\ UNCHANGED <<req, resp, calls, lib, produced, served>>

\* The request is over; nothing of it is kept.
Complete(i) ==
  /\ pc[i] = "done"
  /\ served < MaxServed
  /\ served' = served + 1
  /\ pc' = [pc EXCEPT ![i] = "idle"]
  /\ req' = [req EXCEPT ![i] = NoRequest]
  /\ resp' = [resp EXCEPT ![i] = NoResponse]
  /\ client' = [client EXCEPT ![i] = NoResponse]
  /\ calls' = [calls EXCEPT ![i] = 0]
  /\ lib' = [lib EXCEPT ![i] = <<>>]
  /\ produced' = [produced EXCEPT ![i] = <<>>]

Handle(i) ==
  \/ Validate(i)
  \/ generate_qr_code_api(i)
  \/ generate_barcode_api(i)
  \/ read_root(i)
  \/ Send(i)
  \/ Complete(i)

Next == \E i \in Slots : ReceiveAlone(i) \/ Handle(i)

Spec == Init /\ [][Next]_vars

NextConcurrent == \E i \in Slots : ReceiveConcurrent(i) \/ Handle(i)

SpecConcurrent == Init /\ [][NextConcurrent]_vars

(***************************************************************************)
(* Properties.                                                             *)
(***************************************************************************)

\* C1: every POST /generate-barcode request whose barcode_type is outside
\* the supported set is answered 400 with a detail that names the value and
\* lists the supported set.
C1_UnsupportedTypeIs400 ==
  \A i \in Slots :
    (/\ pc[i] = "done"
     /\ req[i].endpoint = "/generate-barcode"
     /\ Has(req[i].barcode_type) /\ Has(req[i].data)
     /\ Val(req[i].barcode_type) \notin
          {"ean8", "ean13", "upca", "jan", "isbn10", "isbn13", "issn",
           "code39", "code128", "pzn", "gs1"})
    => /\ client[i].status_code = 400
       /\ InList(Val(req[i].barcode_type), client[i].detail)
       /\ \A t \in {"ean8", "ean13", "upca", "jan", "isbn10", "isbn13", "issn",
                    "code39", "code128", "pzn", "gs1"} :
            InList(t, client[i].detail)

\* C2: when the barcode encoder fails with an invalid-data error on a
\* supported type, the response is 400 and its detail contains the
\* barcode_type and the cause.
C2_InvalidDataIs400 ==
  \A i \in Slots :
    (/\ pc[i] = "done"
     /\ req[i].endpoint = "/generate-barcode"
     /\ Has(lib[i])
     /\ Val(lib[i]).class \in
          {"IllegalCharacterError", "NumberOfDigitsError", "WrongCountryCodeError"})
    => /\ client[i].status_code = 400
       /\ InList(Val(req[i].barcode_type), client[i].detail)
       /\ InList(Val(lib[i]).detail[1], client[i].detail)
       /\ client[i].body_iterator = <<>>

\* EAN-13 with five digits has been answered 400.
C2_Witness ==
  \E i \in Slots :
    /\ pc[i] = "done"
    /\ req[i].endpoint = "/generate-barcode"
    /\ req[i].barcode_type = <<"ean13">>
    /\ req[i].data = <<<<49, 50, 51, 52, 53>>>>
    /\ Has(lib[i]) /\ Val(lib[i]).class = "NumberOfDigitsError"
    /\ client[i].status_code = 400

\* C3: an encoder fault that is not a barcode invalid-data error is answered
\* 500 with the endpoint's message followed by the cause, never 200 or 400,
\* and the encoder is entered at most once per request.
C3_OtherFaultIs500 ==
  \A i \in Slots :
    /\ calls[i] <= 1
    /\ (/\ pc[i] = "done"
        /\ req[i].endpoint = "/generate-qr"
        /\ Has(lib[i]))
       => /\ client[i].status_code = 500
          /\ client[i].detail =
               <<"Failed to generate QR Code: ">> \o Val(lib[i]).detail
          /\ calls[i] = 1
    /\ (/\ pc[i] = "done"
        /\ req[i].endpoint = "/generate-barcode"
        /\ Has(lib[i])
        /\ Val(lib[i]).class \notin
             {"BarcodeError", "IllegalCharacterError", "NumberOfDigitsError",
              "WrongCountryCodeError", "BarcodeNotFoundError"})
       => /\ client[i].status_code = 500
          /\ client[i].detail =
               <<"Failed to generate barcode: ">> \o Val(lib[i]).detail
          /\ calls[i] = 1

\* A QR request whose data overflows version 40 has been answered 500.
C3_Witness ==
  \E i \in Slots :
    /\ pc[i] = "done"
    /\ req[i].endpoint = "/generate-qr"
    /\ Has(lib[i]) /\ Val(lib[i]).class = "DataOverflowError"
    /\ client[i].status_code = 500
    /\ calls[i] = 1

\* C4: a request that violates a declared constraint (QR version outside
\* [1,40], box_size < 1, border < 0, data absent; barcode_type outside the
\* supported set) ends in a client error and the encoder is never entered.
C4_RejectedBeforeEncoder ==
  \A i \in Slots :
    (/\ pc[i] = "done"
     /\ \/ /\ req[i].endpoint = "/generate-qr"
           /\ \/ ~Has(req[i].data)
              \/ Has(req[i].version)
                   /\ (Val(req[i].version) < 1 \/ Val(req[i].version) > 40)
              \/ Has(req[i].box_size) /\ Val(req[i].box_size) < 1
              \/ Has(req[i].border) /\ Val(req[i].border) < 0
        \/ /\ req[i].endpoint = "/generate-barcode"
           /\ Has(req[i].barcode_type)
           /\ Val(req[i].barcode_type) \notin
                {"ean8", "ean13", "upca", "jan", "isbn10", "isbn13", "issn",
                 "code39", "code128", "pzn", "gs1"})
    => /\ client[i].status_code \in 400..499
       /\ calls[i] = 0

\* The fields of a body that are missing though required, or out of range.
OffendingFields(r) ==
  IF r.endpoint = "/generate-qr"
  THEN {f \in {"data"} : ~Has(r[f])}
         \cup {f \in {"version"} : Has(r[f]) /\ (Val(r[f]) < 1 \/ Val(r[f]) > 40)}
         \cup {f \in {"box_size"} : Has(r[f]) /\ Val(r[f]) < 1}
         \cup {f \in {"border"} : Has(r[f]) /\ Val(r[f]) < 0}
  ELSE IF r.endpoint = "/generate-barcode"
  THEN {f \in {"barcode_type", "data"} : ~Has(r[f])}
  ELSE {}

\* C5 as stated: a malformed, missing or out-of-range field is answered with
\* status 400 and a message naming the field.
C5_InvalidFieldIs400 ==
  \A i \in Slots :
    (pc[i] = "done" /\ OffendingFields(req[i]) # {})
    => /\ client[i].status_code = 400
       /\ \A f \in OffendingFields(req[i]) :
            \E e \in client[i].errors : e.loc = <<"body", f>>

\* C5 amended: a missing or out-of-range field is answered with status 422;
\* the errors name exactly the offending fields, and the encoder is not
\* entered.
C5_InvalidFieldIs422 ==
  \A i \in Slots :
    (pc[i] = "done" /\ OffendingFields(req[i]) # {})
    => /\ client[i].status_code = 422
       /\ {e.loc : e \in client[i].errors}
            = {<<"body", f>> : f \in OffendingFields(req[i])}
       /\ client[i].body_iterator = <<>>
       /\ calls[i] = 0

\* A QR request with version 41 has been answered 422.
C5_Witness ==
  \E i \in Slots :
    /\ pc[i] = "done"
    /\ req[i].endpoint = "/generate-qr"
    /\ req[i].version = <<41>>
    /\ client[i].status_code = 422
    /\ \E e \in client[i].errors : e.loc = <<"body", "version">>

\* C6 as stated: a valid QR request whose data exceeds the capacity of the
\* requested version is answered 500.
C6_OverflowOfRequestedVersionIs500 ==
  \A i \in Slots :
    (/\ pc[i] = "done"
     /\ req[i].endpoint = "/generate-qr"
     /\ OffendingFields(req[i]) = {}
     /\ Val(req[i].data).n > QRCapacityH[Default(req[i].version, 1)])
    => client[i].status_code = 500

\* C6 amended: the encoder fails for capacity, and the answer is 500, exactly
\* when the data exceeds the capacity of version 40; a successful response
\* carries the symbol of the smallest version, from the requested one up,
\* that holds the data.
C6_OverflowOfLargestVersionIs500 ==
  \A i \in Slots :
    (/\ pc[i] = "done"
     /\ req[i].endpoint = "/generate-qr"
     /\ OffendingFields(req[i]) = {})
    => LET n == Val(req[i].data).n
           v == Default(req[i].version, 1)
       IN /\ n > QRCapacityH[40]
               => /\ client[i].status_code = 500
                  /\ Has(lib[i]) /\ Val(lib[i]).class = "DataOverflowError"
          /\ n <= QRCapacityH[40]
               => ~(Has(lib[i]) /\ Val(lib[i]).class = "DataOverflowError")
          /\ client[i].status_code = 200
               => LET sv == client[i].body_iterator[1].version
                  IN /\ sv \in v..40
                     /\ n <= QRCapacityH[sv]
                     /\ \A w \in v..(sv - 1) : n > QRCapacityH[w]

\* Eight bytes at requested version 1 have been answered 200 with a
\* version-2 symbol.
C6_Witness ==
  \E i \in Slots :
    /\ pc[i] = "done"
    /\ req[i].endpoint = "/generate-qr"
    /\ Has(req[i].data) /\ Val(req[i].data).n = 8
    /\ req[i].version = <<>>
    /\ client[i].status_code = 200
    /\ client[i].body_iterator[1].version = 2

\* C7: on every successful response of the two generation endpoints the
\* Content-Disposition header is inline; filename="<f>" with <f> the file
\* name the client submitted, or the endpoint's default, character for
\* character.
C7_FilenamePassthrough ==
  \A i \in Slots :
    (/\ pc[i] = "done"
     /\ req[i].endpoint \in {"/generate-qr", "/generate-barcode"}
     /\ client[i].status_code = 200)
    => LET f == IF Has(req[i].filename) THEN Val(req[i].filename)
                ELSE IF req[i].endpoint = "/generate-qr"
                THEN <<113, 114, 99, 111, 100, 101, 46, 112, 110, 103>>
                ELSE <<98, 97, 114, 99, 111, 100, 101, 46, 112, 110, 103>>
           h == client[i].content_disposition
       IN /\ Len(h) = 18 + Len(f) + 1
          /\ SubSeq(h, 1, 18) =
               <<105, 110, 108, 105, 110, 101, 59, 32,
                 102, 105, 108, 101, 110, 97, 109, 101, 61, 34>>
          /\ SubSeq(h, 19, 18 + Len(f)) = f
          /\ h[Len(h)] = 34

\* A file name that contains a double quote has come back in the header of
\* a successful response.
C7_Witness ==
  \E i \in Slots :
    /\ pc[i] = "done"
    /\ req[i].endpoint = "/generate-qr"
    /\ req[i].filename = <<<<97, 34>>>>
    /\ client[i].status_code = 200
    /\ Len(client[i].content_disposition) = 21

\* C8: every generation request ends either in full success (200, image/png,
\* the complete buffer of the encoder, no error detail) or in full failure (a
\* 4xx/5xx status with an error JSON detail and no image bytes).
C8_SuccessOrJsonFailure ==
  \A i \in Slots :
    (/\ pc[i] = "done"
     /\ req[i].endpoint \in {"/generate-qr", "/generate-barcode"})
    => \/ /\ client[i].status_code = 200
          /\ client[i].media_type = "image/png"
          /\ produced[i] # <<>>
          /\ client[i].body_iterator = produced[i]
          /\ client[i].detail = <<>> /\ client[i].errors = {}
       \/ /\ client[i].status_code \in 400..599
          /\ client[i].media_type = "application/json"
          /\ client[i].detail # <<>> \/ client[i].errors # {}
          /\ client[i].body_iterator = <<>>

\* C9: the response to a request depends only on the request's own fields
\* and its own encoder outcome, whatever other requests are in flight or were
\* served before; GET / always returns the same JSON.
C9_Independent ==
  /\ \A i, j \in Slots :
       (/\ pc[i] = "done" /\ pc[j] = "done"
        /\ req[i] = req[j] /\ lib[i] = lib[j])
       => client[i] = client[j]
  /\ \A i \in Slots :
       (pc[i] = "done" /\ req[i].endpoint = "/")
       => /\ client[i].status_code = 200
          /\ client[i].content =
               <<[message |-> "Welcome to the Barcode/QR Code Generator API!",
                  docs_url |-> "/docs",
                  redoc_url |-> "/redoc",
                  endpoints |-> [generate_qr |-> "POST - Generate a QR Code",
                                 generate_barcode |-> "POST - Generate a Barcode"]]>>

\* Two identical generation requests have both been answered with an image,
\* the second after an earlier request was served.
C9_Witness ==
  \E i, j \in Slots :
    /\ i # j
    /\ pc[i] = "done" /\ pc[j] = "done"
    /\ req[i] = req[j]
    /\ req[i].endpoint = "/generate-qr"
    /\ client[i].status_code = 200 /\ client[j].status_code = 200
    /\ served > 0

\* C10 as stated: every call of the QR encoder receives data of length at
\* least 1.
C10_EncoderDataNonEmpty ==
  \A i \in Slots :
    (req[i].endpoint = "/generate-qr" /\ calls[i] >= 1)
    => Val(req[i].data).n >= 1

\* C10 amended: the data of a QR request is required but may be empty: the
\* encoder is entered only for a request that carries data, and a request
\* whose data is the empty string, its other fields in range, passes
\* validation and reaches the encoder.
C10_EncoderDataPresent ==
  \A i \in Slots :
    /\ (req[i].endpoint = "/generate-qr" /\ calls[i] >= 1) => Has(req[i].data)
    /\ (/\ pc[i] = "done"
        /\ req[i].endpoint = "/generate-qr"
        /\ OffendingFields(req[i]) = {}
        /\ Val(req[i].data).n = 0)
       => /\ calls[i] = 1
          /\ client[i].status_code # 422

\* The QR encoder has been entered with empty data.
C10_Witness ==
  \E i \in Slots :
    /\ pc[i] = "done"
    /\ req[i].endpoint = "/generate-qr"
    /\ Has(req[i].data) /\ Val(req[i].data).n = 0
    /\ calls[i] = 1
    /\ client[i].status_code # 422

====
